---- MODULE Spec2Model ----
\* Model of the migration worker (worker.go): the bookkeeping table, the
\* version summary, and the Up / Down / Goto / Force / Lock / Unlock /
\* Version / Versions operations, at the granularity of one database
\* transaction (or one non-transactional migration body) per step.
EXTENDS Integers, Sequences, FiniteSets, TLC

\* ------------------------------------------------------------------ bounds
\* Version ids are 1..MaxId; 0 is the "no version" id accepted by no Define.
MaxId == 3
\* Number of distinct assignments of executor kinds to version ids explored.
MaxVariant == 2
MaxStmts == 2
MaxPrev == 2

Ids == 1..MaxId
Args == 0..MaxId
Workers == {1, 2}
Kinds == <<"sql", "tx", "db">>

\* ------------------------------------------------------------------ state
VARIABLES
    db,         \* bookkeeping table: id -> [applied, failed, locked]
    txDDL,      \* driver.SupportsTransactionalDDL()
    authored,   \* id -> [up, down]: executor kinds of the Definition of id
    schema,     \* worker -> set of ids defined in the worker's Schema
    initCalled, \* worker -> Worker.initCalled
    created,    \* worker -> successful driver.CreateMigrationsTable calls
    pc,         \* worker -> position inside the current operation
    op,         \* worker -> current (or last returned) operation
    arg,        \* worker -> its id argument (0 when it has none)
    cur,        \* worker -> id handed to upOneNoTx / downOneNoTx
    more,       \* worker -> the loop's "more" flag
    result,     \* worker -> outcome of the last returned operation
    errId,      \* worker -> version id named by the returned error
    ret,        \* worker -> value returned by Version / Versions
    db0,        \* worker -> table contents when the operation was called
    ran,        \* worker -> migration bodies run by the operation, in order
    trail,      \* worker -> the Lock / Unlock calls that led to this call
    definition, \* the definition being written (Schema.Define)
    prev,       \* the plans of the versions defined before it, in order
    plan        \* the plan built from it, NoPlan before it is built

vars == <<db, txDDL, authored, schema, initCalled, created, pc, op, arg, cur,
          more, result, errId, ret, db0, ran, trail,
          definition, prev, plan>>

\* The schema under definition.
planVars == <<definition, prev, plan>>

\* The state of the workers and of the database.
workerVars == <<db, txDDL, authored, schema, initCalled, created, pc, op, arg,
                cur, more, result, errId, ret, db0, ran, trail>>

\* The variables that no step of an operation changes once it is under way.
fixed == <<txDDL, authored, schema, initCalled, created, trail, planVars>>

\* ------------------------------------------------------- bookkeeping table
NoRow == [applied |-> FALSE, failed |-> FALSE, locked |-> FALSE]

Row(f, l) == [applied |-> TRUE, failed |-> f, locked |-> l]

EmptyTable == [i \in Ids |-> NoRow]

Rows(d) == {i \in Ids : d[i].applied}

\* driver.InsertVersion: the id is the primary key, so a second insert fails.
InsertVersionOk(d, id) == ~d[id].applied

InsertVersion(d, id, f) == [d EXCEPT ![id] = Row(f, FALSE)]

\* The delete whose where clause takes every id up to the given one.
DeleteVersionUpTo(d, id) == [i \in Ids |-> IF i <= id THEN NoRow ELSE d[i]]

\* driver.DeleteVersion: delete ... where id = ?
DeleteVersion(d, id) == [d EXCEPT ![id] = NoRow]

\* driver.SetVersionFailed: update ... set failed = ? where id = ?
SetVersionFailed(d, id, f) ==
    IF d[id].applied THEN [d EXCEPT ![id].failed = f] ELSE d

\* driver.SetVersionLocked: update ... set locked = ? where id = ?
SetVersionLocked(d, id, l) ==
    IF d[id].applied THEN [d EXCEPT ![id].locked = l] ELSE d

\* ------------------------------------------------------------- sequences
Min(S) == CHOOSE x \in S : \A y \in S : x <= y

Max(S) == CHOOSE x \in S : \A y \in S : x >= y

RECURSIVE Ascending(_)
Ascending(S) == IF S = {} THEN <<>>
                ELSE <<Min(S)>> \o Ascending(S \ {Min(S)})

RECURSIVE Descending(_)
Descending(S) == IF S = {} THEN <<>>
                 ELSE <<Max(S)>> \o Descending(S \ {Max(S)})

\* driver.ListVersions: the rows of the table, ascending by id.
ListVersions(d) == Ascending(Rows(d))

\* ------------------------------------------------------- version summary
\* The Version record of id as the summary holds it.
\* The record with its applied timestamp always set.
VersionOfRow(d, id) ==
    [ID |-> id, AppliedAt |-> TRUE,
     Failed |-> d[id].failed, Locked |-> d[id].locked]

VersionOf(d, id) ==
    [ID |-> id, AppliedAt |-> d[id].applied,
     Failed |-> d[id].failed, Locked |-> d[id].locked]

\* The summary with its unapplied plans sorted the wrong way round.
getVersionSummaryUnappliedDescending(d, sch) ==
    LET known == Rows(d) \cup sch
        ids == Ascending(known)
    IN [versions  |-> [k \in 1..Len(ids) |-> VersionOf(d, ids[k])],
        applied   |-> Descending(sch \cap Rows(d)),
        unapplied |-> Descending(sch \ Rows(d))]

getVersionSummaryAllowFailed(d, sch) ==
    LET known == Rows(d) \cup sch
        ids == Ascending(known)
    IN [versions  |-> [k \in 1..Len(ids) |-> VersionOf(d, ids[k])],
        applied   |-> Descending(sch \cap Rows(d)),
        unapplied |-> Ascending(sch \ Rows(d))]

\* The id named by getVersionSummary's "previously failed" error: the first
\* failed version in ascending order, 0 when there is none.
FirstFailed(vs) ==
    LET bad == {k \in 1..Len(vs.versions) : vs.versions[k].Failed}
    IN IF bad = {} THEN 0 ELSE vs.versions[Min(bad)].ID

\* getVersionSummary without its loop over the failed versions.
getVersionSummaryIgnoringFailed(d, sch) ==
    [vs |-> getVersionSummaryAllowFailed(d, sch), failed |-> 0]

getVersionSummary(d, sch) ==
    LET vs == getVersionSummaryAllowFailed(d, sch)
    IN [vs |-> vs, failed |-> FirstFailed(vs)]

\* versionSummary.checkLocked: the id named by the "version locked" error,
\* 0 when the check passes.
RECURSIVE checkLockedFrom(_, _, _, _)
checkLockedFrom(d, applied, k, id) ==
    IF k > Len(applied) THEN 0
    ELSE IF applied[k] <= id THEN 0
    ELSE IF d[applied[k]].locked THEN applied[k]
    ELSE checkLockedFrom(d, applied, k + 1, id)

\* The scan reporting the lowest locked version above id, not the highest.
checkLockedLowest(d, vs, id) ==
    LET hit == {k \in 1..Len(vs.applied) :
                  vs.applied[k] > id /\ d[vs.applied[k]].locked}
    IN IF hit = {} THEN 0 ELSE vs.applied[Max(hit)]

\* The scan that also stops at a locked target.
checkLockedThrough(d, vs, id) ==
    LET hit == {k \in 1..Len(vs.applied) :
                  vs.applied[k] >= id /\ d[vs.applied[k]].locked}
    IN IF hit = {} THEN 0 ELSE vs.applied[Min(hit)]

\* The check that never finds a locked version.
checkLockedNone(d, vs, id) == 0

checkLocked(d, vs, id) == checkLockedFrom(d, vs.applied, 1, id)

\* The validation that accepts every id.
checkVersionAny(sch, id) == TRUE

\* Worker.checkVersion: the id must be a key of schema.definitions.
checkVersion(sch, id) == id \in sch

\* ------------------------------------------------------------ executors
KindAt(k) == Kinds[(k % 3) + 1]

\* Definition of every id under variant n: the up kinds cycle through
\* sql, tx, db and the down kinds are shifted against them by n + 1.
Authored(n) ==
    [i \in Ids |-> [up |-> KindAt(i + n), down |-> KindAt(i + 2 * n + 1)]]

\* The choice of path made on the driver and the DB function alone.
UpEscalatesByDriver(def, ddl) == ~ddl \/ def.up = "db"

\* upOne's choice of path: TRUE when the step leaves the transaction.
UpEscalates(def, ddl) ==
    IF def.up = "tx" THEN FALSE ELSE (~ddl \/ def.up = "db")

\* downOne's choice of path.
DownEscalates(def, ddl) ==
    IF def.down = "tx" THEN FALSE ELSE (~ddl \/ def.down = "db")

\* ----------------------------------------------------------- call history
\* What is remembered of the calls before the current one: a Lock(id) that
\* returned nil ("locked"), then an Unlock(id) of the same id that returned
\* nil ("unlocked"), with the table as it was when Lock was called.
NoTrail == [stage |-> "none", id |-> 0, pre |-> EmptyTable]

\* The calls that continue the remembered sequence: Unlock of the version
\* just locked, and Goto to a target below the version just unlocked.
TrailKept(t, o, id) ==
    \/ o = "Unlock" /\ t.stage = "locked" /\ t.id = id
    \/ o = "Goto" /\ t.stage = "unlocked" /\ id < t.id

\* The sequence after operation o(id) returned r, called with table d.
TrailAfter(t, o, id, r, d) ==
    IF o = "Lock" /\ r = "nil"
    THEN [stage |-> "locked", id |-> id, pre |-> d]
    ELSE IF o = "Unlock" /\ r = "nil" /\ t.stage = "locked"
    THEN [t EXCEPT !.stage = "unlocked"]
    ELSE NoTrail

\* ------------------------------------------------------- SQL statements
\* An SQL text is held as the sequence of its lexemes, as the scanner of
\* newStatements yields them (keywords in lower case, ";" a lexeme).
\* The statements the up SQL of a definition is put together from.
Statements ==
    << <<"create", "table", "t1", ";">>,
       <<"alter", "table", "t1", ";">>,
       <<"drop", "table", "t2", ";">>,
       <<"create", "view", "v1", ";">>,
       <<"drop", "view", "v1", ";">>,
       <<"create", "index", "on", "t1", ";">>,
       <<"grant", "all", ";">>,
       <<"create", "widget", "x", ";">>,
       <<"create", "table", ";">>,
       <<"create", "view">>,
       <<"create", "trigger", "tr1", "on", "t1", ";">>,
       <<"create", "domain", "d1", ";">>,
       <<"drop", "table", "if", "exists", "t1", ";">>,
       <<"create", "view", "v1", "as", "t2", ";">> >>

\* The up SQL of the versions that are defined before another one.
EarlierTexts ==
    {Statements[1], Statements[14], Statements[5],
     Statements[5] \o Statements[4]}

\* The explicit down SQL a definition may be given.
DownText == <<"do", "something", ";">>

RECURSIVE Flatten(_)
Flatten(ss) == IF ss = <<>> THEN <<>> ELSE Head(ss) \o Flatten(Tail(ss))

\* Longer texts, given by the numbers of their statements.
LongTexts ==
    {<<1, 3, 2>>, <<1, 4, 6>>, <<5, 4, 2>>, <<1, 8, 4>>, <<3, 4, 1>>,
     <<5, 1, 4>>, <<12, 6, 1>>}

\* The up SQL texts: up to MaxStmts statements one after the other, and
\* the longer texts.
UpTexts ==
    {Flatten([k \in 1..n |-> Statements[f[k]]]) :
        n \in 0..MaxStmts, f \in [1..MaxStmts -> 1..Len(Statements)]}
    \cup {Flatten([k \in 1..Len(t) |-> Statements[t[k]]]) : t \in LongTexts}

\* newStatements: the lexemes cut into statements after every ";"; lexemes
\* left over after the last ";" make a last statement.
RECURSIVE newStatementsFrom(_, _)
newStatementsFrom(lexemes, stmt) ==
    IF lexemes = <<>>
    THEN IF stmt = <<>> THEN <<>> ELSE <<stmt>>
    ELSE IF Head(lexemes) = ";"
    THEN <<Append(stmt, ";")>> \o newStatementsFrom(Tail(lexemes), <<>>)
    ELSE newStatementsFrom(Tail(lexemes), Append(stmt, Head(lexemes)))

newStatements(sql) == newStatementsFrom(sql, <<>>)

\* statement.get, with the index counted from 0 as in the source.
get(stmt, i) == IF Len(stmt) <= i THEN "" ELSE stmt[i + 1]

match(stmt, lexemes) ==
    /\ Len(stmt) >= Len(lexemes)
    /\ \A k \in 1..Len(lexemes) : stmt[k] = lexemes[k]

\* stmt[n:]
From(stmt, n) == SubSeq(stmt, n + 1, Len(stmt))

remove(stmt, lexemes) ==
    IF match(stmt, lexemes) THEN From(stmt, Len(lexemes)) ELSE stmt

\* ----------------------------------------------------------- DDL actions
allDDLVerbs == {"alter", "create", "drop"}

\* allDBObjectTypes: every object type with whether it is restorable.
allDBObjectTypes ==
    [t \in {"domain", "function", "index", "procedure", "sequence", "table",
            "trigger", "type", "view"}
       |-> t \in {"function", "procedure", "trigger", "view"}]

parseDDLVerb(s) == s \in allDDLVerbs

parseDBObjectType(s) == s \in DOMAIN allDBObjectTypes

ShouldRestore(t) == IF t \in DOMAIN allDBObjectTypes
                    THEN allDBObjectTypes[t] ELSE FALSE

\* The nil *ddlAction.
NilAction ==
    [verb |-> "", dropBefore |-> FALSE, checkExists |-> FALSE,
     checkNotExists |-> FALSE, objectType |-> "", schema |-> "",
     name |-> "", index |-> ""]

\* newDDLAction: the action of one statement, NilAction when the statement
\* is not understood.
newDDLAction(stmt0) ==
    IF ~parseDDLVerb(get(stmt0, 0)) THEN NilAction
    ELSE
    LET verb == get(stmt0, 0)
        stmt1 == From(stmt0, 1)
        stmt2 == IF match(stmt1, <<"unique", "index">>)
                 THEN From(stmt1, 1) ELSE stmt1
    IN IF ~parseDBObjectType(get(stmt2, 0)) THEN NilAction
       ELSE
       LET objType == get(stmt2, 0)
           stmt3 == remove(From(stmt2, 1), <<"concurrently">>)
           ifExists == match(stmt3, <<"if", "exists">>)
           ifNotExists == ~ifExists /\ match(stmt3, <<"if", "not", "exists">>)
           stmt4 == IF ifExists THEN From(stmt3, 2)
                    ELSE IF ifNotExists THEN From(stmt3, 3) ELSE stmt3
           named == objType = "index" /\ ~match(stmt4, <<"on">>)
           stmt5 == IF named THEN From(stmt4, 1) ELSE stmt4
           stmt6 == IF objType = "index"
                    THEN remove(remove(stmt5, <<"on">>), <<"only">>)
                    ELSE stmt4
           qualified == get(stmt6, 1) = "."
           name == IF qualified THEN get(stmt6, 2) ELSE get(stmt6, 0)
       IN IF name = "" THEN NilAction
          ELSE [verb |-> verb, dropBefore |-> FALSE,
                checkExists |-> ifExists, checkNotExists |-> ifNotExists,
                objectType |-> objType,
                schema |-> IF qualified THEN get(stmt6, 0) ELSE "",
                name |-> name,
                index |-> IF named THEN get(stmt4, 0) ELSE ""]

\* The merge that leaves the create's own "if exists" flag as it is.
RECURSIVE mergeDropCreateNoCopy(_)
mergeDropCreateNoCopy(acts) ==
    IF acts = <<>> THEN <<>>
    ELSE IF /\ Len(acts) > 1
            /\ acts[1].verb = "drop"
            /\ acts[2].verb = "create"
            /\ acts[1].objectType = acts[2].objectType
            /\ acts[1].schema = acts[2].schema
            /\ acts[1].name = acts[2].name
            /\ acts[1].index = acts[2].index
    THEN <<[acts[2] EXCEPT !.dropBefore = TRUE]>>
         \o mergeDropCreateNoCopy(SubSeq(acts, 3, Len(acts)))
    ELSE <<acts[1]>> \o mergeDropCreateNoCopy(Tail(acts))

\* mergeDropCreate: a drop directly followed by a create of the same object
\* becomes the create, marked as preceded by a drop.
RECURSIVE mergeDropCreate(_)
mergeDropCreate(acts) ==
    IF acts = <<>> THEN <<>>
    ELSE IF /\ Len(acts) > 1
            /\ acts[1].verb = "drop"
            /\ acts[2].verb = "create"
            /\ acts[1].objectType = acts[2].objectType
            /\ acts[1].schema = acts[2].schema
            /\ acts[1].name = acts[2].name
            /\ acts[1].index = acts[2].index
    THEN <<[acts[2] EXCEPT !.dropBefore = TRUE,
                           !.checkExists = acts[1].checkExists]>>
         \o mergeDropCreate(From(acts, 2))
    ELSE <<acts[1]>> \o mergeDropCreate(From(acts, 1))

\* The test that looks at the action directly before src[j] only.
AfterCreateTableAdjacent(src, j) ==
    /\ j > 1
    /\ src[j - 1].verb = "create" /\ src[j - 1].objectType = "table"
    /\ src[j].schema = src[j - 1].schema /\ src[j].name = src[j - 1].name
    /\ \/ src[j].verb = "alter" /\ src[j].objectType = "table"
       \/ src[j].verb = "create" /\ src[j].objectType = "index"

\* mergeCreateTable's test: src[j] is an alter table or a create index of
\* the table that an earlier action of src creates.
AfterCreateTable(src, j) ==
    \E i \in 1..(j - 1) :
        /\ src[i].verb = "create" /\ src[i].objectType = "table"
        /\ src[j].schema = src[i].schema /\ src[j].name = src[i].name
        /\ \/ src[j].verb = "alter" /\ src[j].objectType = "table"
           \/ src[j].verb = "create" /\ src[j].objectType = "index"

RECURSIVE Keep(_, _, _)
Keep(src, j, dropped) ==
    IF j > Len(src) THEN <<>>
    ELSE IF j \in dropped THEN Keep(src, j + 1, dropped)
    ELSE <<src[j]>> \o Keep(src, j + 1, dropped)

mergeCreateTable(src) ==
    Keep(src, 1, {j \in 1..Len(src) : AfterCreateTable(src, j)})

\* newDDLActions: the actions of an SQL text, none at all when one of its
\* statements is not understood.
newDDLActions(sql) ==
    LET stmts == newStatements(sql)
        acts == [k \in 1..Len(stmts) |-> newDDLAction(stmts[k])]
    IN IF \E k \in 1..Len(stmts) : acts[k] = NilAction
       THEN <<>>
       ELSE mergeCreateTable(mergeDropCreate(acts))

\* ddlActions.find: the last action of acts with this verb and object.
find(acts, verb, objType, sch, name) ==
    LET hit == {k \in 1..Len(acts) :
                  /\ acts[k].verb = verb
                  /\ acts[k].objectType = objType
                  /\ acts[k].schema = sch
                  /\ acts[k].name = name}
    IN IF hit = {} THEN NilAction ELSE acts[Max(hit)]

\* ddlAction.qualifiedName, as lexemes.
qualifiedName(act) ==
    IF act.schema # "" THEN <<act.schema, ".", act.name>> ELSE <<act.name>>

\* ----------------------------------------------------------- definitions
\* newDefinition: no executor set (an empty text is the unset SQL).
newDefinition ==
    [upSQL |-> <<>>, upDB |-> FALSE, upTx |-> FALSE,
     downSQL |-> <<>>, downDB |-> FALSE, downTx |-> FALSE]

upMethods(d) ==
    (IF d.upSQL # <<>> THEN <<"Up">> ELSE <<>>)
    \o (IF d.upDB THEN <<"UpDB">> ELSE <<>>)
    \o (IF d.upTx THEN <<"UpTx">> ELSE <<>>)

downMethods(d) ==
    (IF d.downSQL # <<>> THEN <<"Down">> ELSE <<>>)
    \o (IF d.downDB THEN <<"DownDB">> ELSE <<>>)
    \o (IF d.downTx THEN <<"DownTx">> ELSE <<>>)

\* The validation that lets any number of executors pass.
errsNone(d) == <<>>

\* Definition.errs: an error is the sequence of the parts of its text.
errs(d) ==
    (IF Len(upMethods(d)) > 1
     THEN << <<"call only one of">> \o upMethods(d) >> ELSE <<>>)
    \o (IF Len(upMethods(d)) = 0
        THEN << <<"call one of", "Up", "UpDB", "UpTx">> >> ELSE <<>>)
    \o (IF Len(downMethods(d)) > 1
        THEN << <<"call only one of">> \o downMethods(d) >> ELSE <<>>)

\* ------------------------------------------------------------------ plans
\* The plan not built yet.
NoPlan == [built |-> FALSE, actions |-> <<>>, errs |-> <<>>, downSQL |-> <<>>]

\* deriveDownSQL's counters.
shouldRestore(acts) ==
    LET P(a) == a.verb \in {"create", "drop"} /\ ShouldRestore(a.objectType)
    IN Len(SelectSeq(acts, P))

shouldDrop(acts) ==
    LET P(a) == a.verb = "create" /\ ~ShouldRestore(a.objectType)
    IN Len(SelectSeq(acts, P))

\* The test that never sends a version to the "own migration" errors.
ownMigrationNever(acts) == FALSE

\* deriveDownSQL's first test: restorable objects need their own version.
ownMigration(acts) ==
    \/ shouldRestore(acts) > 1
    \/ shouldRestore(acts) > 0 /\ shouldDrop(acts) > 0

ownMigrationErrors(acts) ==
    LET P(a) == ShouldRestore(a.objectType)
        E(a) == <<a.verb, a.objectType>> \o qualifiedName(a)
                \o <<"in its own migration">>
        sel == SelectSeq(acts, P)
    IN [k \in 1..Len(sel) |-> E(sel[k])]

\* The test that takes no action for irreversible.
needsManualNever(a) == FALSE

\* deriveDownSQL's test of an action that cannot be reversed: not a create,
\* and not the drop of a restorable object.
needsManual(a) ==
    ~(a.verb = "drop" /\ ShouldRestore(a.objectType)) /\ a.verb # "create"

manualErrors(acts) ==
    LET P(a) == needsManual(a)
        E(a) == <<a.verb, a.objectType>> \o qualifiedName(a)
                \o <<"needs a manual down migration">>
        sel == SelectSeq(acts, P)
    IN [k \in 1..Len(sel) |-> E(sel[k])]

dropSQL(act) == <<"drop", act.objectType>> \o qualifiedName(act) \o <<";">>

\* The search that takes the oldest plan creating the object.
restoreFromOldest(act, pv, k) ==
    LET hits == {j \in 1..k :
                   find(pv[j].actions, "create", act.objectType, act.schema,
                        act.name) # NilAction}
    IN IF hits = {} THEN dropSQL(act)
       ELSE LET prevAct == find(pv[Min(hits)].actions, "create",
                                act.objectType, act.schema, act.name)
            IN (IF ~prevAct.dropBefore THEN dropSQL(act) ELSE <<>>)
               \o pv[Min(hits)].upSQL

\* deriveDownSQLRestore: the search through the earlier plans pv (the
\* nearest last), for the latest plan that creates the object.
RECURSIVE restoreFrom(_, _, _)
restoreFrom(act, pv, k) ==
    IF k = 0 THEN dropSQL(act)
    ELSE LET prevAct == find(pv[k].actions, "create", act.objectType,
                             act.schema, act.name)
         IN IF prevAct # NilAction
            THEN (IF ~prevAct.dropBefore THEN dropSQL(act) ELSE <<>>)
                 \o pv[k].upSQL
            ELSE restoreFrom(act, pv, k - 1)

deriveDownSQLRestore(acts, pv) == restoreFrom(acts[1], pv, Len(pv))

\* deriveDownSQLDrop: the drop statements in reverse order, and the errors
\* for the indexes and triggers among the actions.
RECURSIVE dropErrors(_, _)
dropErrors(acts, i) ==
    IF i = 0 THEN <<>>
    ELSE (IF acts[i].objectType = "index"
          THEN << <<acts[i].verb, acts[i].objectType>>
                  \o (IF acts[i].index = "" THEN <<>> ELSE <<acts[i].index>>)
                  \o <<"on">> \o qualifiedName(acts[i])
                  \o <<"needs a manual down migration">> >>
          ELSE <<>>)
         \o (IF acts[i].objectType = "trigger"
             THEN << <<acts[i].verb, acts[i].objectType, "on">>
                     \o qualifiedName(acts[i])
                     \o <<"needs a manual down migration">> >>
             ELSE <<>>)
         \o dropErrors(acts, i - 1)

\* The drop statements in the order of the actions.
RECURSIVE dropStatementsForward(_, _)
dropStatementsForward(acts, i) ==
    IF i = 0 THEN <<>>
    ELSE dropStatementsForward(acts, i - 1) \o dropSQL(acts[i])

RECURSIVE dropStatements(_, _)
dropStatements(acts, i) ==
    IF i = 0 THEN <<>> ELSE dropSQL(acts[i]) \o dropStatements(acts, i - 1)

\* migrationPlan.deriveDownSQL: the errors it adds and the down SQL it sets.
deriveDownSQL(d, acts, pv) ==
    IF ownMigration(acts)
    THEN [errs |-> ownMigrationErrors(acts), downSQL |-> <<>>]
    ELSE IF Len(downMethods(d)) > 0 \/ Len(acts) = 0
    THEN [errs |-> <<>>, downSQL |-> <<>>]
    ELSE IF manualErrors(acts) # <<>>
    THEN [errs |-> manualErrors(acts), downSQL |-> <<>>]
    ELSE IF shouldRestore(acts) > 0
    THEN [errs |-> <<>>, downSQL |-> deriveDownSQLRestore(acts, pv)]
    ELSE IF shouldDrop(acts) > 0
    THEN [errs |-> dropErrors(acts, Len(acts)),
          downSQL |-> dropStatements(acts, Len(acts))]
    ELSE [errs |-> <<>>, downSQL |-> <<>>]

\* migrationPlan.checkErrors
checkErrors(d, downSQL) ==
    IF Len(downMethods(d)) = 0 /\ downSQL = <<>>
    THEN << <<"call one of", "Down", "DownDB", "DownTx">> >> ELSE <<>>

\* newPlan: the plan of definition d that follows the plans pv.
newPlan(d, pv) ==
    LET acts == newDDLActions(d.upSQL)
        down == deriveDownSQL(d, acts, pv)
    IN [built |-> TRUE, actions |-> acts,
        errs |-> errs(d) \o down.errs \o checkErrors(d, down.downSQL),
        downSQL |-> down.downSQL]

\* ------------------------------------------------------------------ init
Init ==
    /\ db = EmptyTable
    /\ txDDL \in BOOLEAN
    /\ \E n \in 0..MaxVariant : authored = Authored(n)
    /\ \E s \in (SUBSET Ids) \ {{}} : schema = [w \in Workers |-> s]
    /\ initCalled = [w \in Workers |-> FALSE]
    /\ created = [w \in Workers |-> 0]
    /\ pc = [w \in Workers |-> IF w = 1 THEN "idle" ELSE "off"]
    /\ op = [w \in Workers |-> "none"]
    /\ arg = [w \in Workers |-> 0]
    /\ cur = [w \in Workers |-> 0]
    /\ more = [w \in Workers |-> FALSE]
    /\ result = [w \in Workers |-> "none"]
    /\ errId = [w \in Workers |-> 0]
    /\ ret = [w \in Workers |-> <<>>]
    /\ db0 = [w \in Workers |-> EmptyTable]
    /\ ran = [w \in Workers |-> <<>>]
    /\ trail = [w \in Workers |-> NoTrail]
    /\ definition = newDefinition
    /\ prev = <<>>
    /\ plan = NoPlan

\* ------------------------------------------------------- step plumbing
Set(f, w, v) == [f EXCEPT ![w] = v]

\* The operation returns to its caller with outcome r naming version e.
Finish(w, r, e) ==
    /\ pc' = Set(pc, w, "done")
    /\ result' = Set(result, w, r)
    /\ errId' = Set(errId, w, e)

\* The operation goes on with the step at position p.
Continue(w, p) ==
    /\ pc' = Set(pc, w, p)
    /\ UNCHANGED <<result, errId>>

\* init calling the driver on every call.
initCreatesAlways(w) == TRUE

\* Worker.init: the driver's CreateMigrationsTable is called only while
\* initCalled is false.
initCreates(w) == ~initCalled[w]

\* Worker.init followed by the first step of operation o: checkVersion (for
\* the operations that take an id), then the one-time table creation, whose
\* driver call succeeds or fails (createOk).
Enter(w, o, id, checked, createOk, first) ==
    /\ pc[w] = "idle"
    /\ op' = Set(op, w, o)
    /\ arg' = Set(arg, w, id)
    /\ db0' = Set(db0, w, db)
    /\ ran' = Set(ran, w, <<>>)
    /\ ret' = Set(ret, w, <<>>)
    /\ cur' = Set(cur, w, 0)
    /\ more' = Set(more, w, FALSE)
    /\ trail' = Set(trail, w,
                    IF TrailKept(trail[w], o, id) THEN trail[w] ELSE NoTrail)
    /\ UNCHANGED <<db, txDDL, authored, schema, planVars>>
    /\ IF checked /\ ~checkVersion(schema[w], id)
       THEN Finish(w, "invalid version id", id)
            /\ UNCHANGED <<initCalled, created>>
       ELSE IF initCreates(w) /\ ~createOk
       THEN Finish(w, "create table failed", 0)
            /\ UNCHANGED <<initCalled, created>>
       ELSE /\ initCalled' = Set(initCalled, w, TRUE)
            /\ created' = Set(created, w,
                              IF ~initCreates(w) THEN created[w]
                              ELSE IF created[w] < 2 THEN created[w] + 1
                              ELSE created[w])
            /\ pc' = Set(pc, w, first)
            /\ result' = Set(result, w, "pending")
            /\ errId' = Set(errId, w, 0)

\* The loop of Up / Down / Goto after a single step that returned no error:
\* Up and Down repeat while the step reported more, Goto while gotoOne did.
LoopPc(o) == IF o = "Up" THEN "upOne"
             ELSE IF o = "Down" THEN "downOne" ELSE "gotoOne"

\* The loop that returns nil after its first step.
AfterStepOnce(w, m) == more' = Set(more, w, FALSE) /\ Finish(w, "nil", 0)

\* The loop that always goes round again.
AfterStepAlways(w, m) ==
    more' = Set(more, w, TRUE) /\ Continue(w, LoopPc(op[w]))

AfterStep(w, m) ==
    LET again == IF op[w] = "Goto" THEN more[w] ELSE m
    IN /\ more' = Set(more, w, again)
       /\ IF again THEN Continue(w, LoopPc(op[w])) ELSE Finish(w, "nil", 0)

\* A transaction that commits what it wrote even when its function fails.
transactCommitsAlways(d, written, failed) == written

\* Worker.transact: the table after the transaction, which is rolled back
\* when its function returned an error and committed otherwise.
transact(d, written, failed) == IF failed THEN d ELSE written

\* One migration body of version id was run.
Body(d, id, inTx, ok) == [dir |-> d, id |-> id, tx |-> inTx, ok |-> ok]

\* ------------------------------------------------------ public operations
\* Outcomes of driver.CreateMigrationsTable open to a call: the driver is
\* called only while initCalled is false.
CreateOutcomes(w) == IF initCreates(w) THEN BOOLEAN ELSE {TRUE}

Up(w) == \E c \in CreateOutcomes(w) : Enter(w, "Up", 0, FALSE, c, "upOne")

Down(w) == \E c \in CreateOutcomes(w) : Enter(w, "Down", 0, FALSE, c, "downOne")

Goto(w, id) == \E c \in CreateOutcomes(w) : Enter(w, "Goto", id, TRUE, c, "gotoOne")

Force(w, id) == \E c \in CreateOutcomes(w) : Enter(w, "Force", id, TRUE, c, "force")

Lock(w, id) == \E c \in CreateOutcomes(w) : Enter(w, "Lock", id, TRUE, c, "lockHelper")

Unlock(w, id) ==
    \E c \in CreateOutcomes(w) : Enter(w, "Unlock", id, TRUE, c, "lockHelper")

Version(w, id) ==
    \E c \in CreateOutcomes(w) : Enter(w, "Version", id, TRUE, c, "version")

Versions(w) == \E c \in CreateOutcomes(w) : Enter(w, "Versions", 0, FALSE, c, "versions")

\* ------------------------------------------------------------------ Force
\* The loop that writes to the row of the version it is looking at.
RECURSIVE ForceLoopEachVersion(_, _, _, _)
ForceLoopEachVersion(d, versions, k, id) ==
    IF k > Len(versions) THEN d
    ELSE IF versions[k].ID > id
    THEN ForceLoopEachVersion(DeleteVersion(d, versions[k].ID), versions,
                              k + 1, id)
    ELSE IF versions[k].Failed
    THEN ForceLoopEachVersion(SetVersionFailed(d, versions[k].ID, FALSE),
                              versions, k + 1, id)
    ELSE ForceLoopEachVersion(d, versions, k + 1, id)

\* The loop of Force over vs.versions (read before the loop), acting on d.
RECURSIVE ForceLoop(_, _, _, _)
ForceLoop(d, versions, k, id) ==
    IF k > Len(versions) THEN d
    ELSE IF versions[k].ID > id
    THEN ForceLoop(DeleteVersion(d, id), versions, k + 1, id)
    ELSE IF versions[k].Failed
    THEN ForceLoop(SetVersionFailed(d, id, FALSE), versions, k + 1, id)
    ELSE ForceLoop(d, versions, k + 1, id)

\* The search that finds every id.
FoundAlways(vs, id) == TRUE

\* "found": the id is among the applied plans of the summary.
Found(vs, id) == \E k \in 1..Len(vs.applied) : vs.applied[k] = id

ForceTx(w) ==
    /\ pc[w] = "force"
    /\ LET vs == getVersionSummaryAllowFailed(db, schema[w])
           lk == checkLocked(db, vs, arg[w])
       IN IF lk # 0
          THEN Finish(w, "version locked", lk) /\ UNCHANGED db
          ELSE IF ~Found(vs, arg[w])
          THEN Finish(w, "cannot force unapplied version", arg[w])
               /\ UNCHANGED db
          ELSE /\ db' = ForceLoop(db, vs.versions, 1, arg[w])
               /\ Finish(w, "nil", 0)
    /\ UNCHANGED <<fixed, op, arg, cur, more,
                   ret, db0, ran>>

\* ---------------------------------------------------------- Lock / Unlock
\* lockHelper writing the locked flag of every row, not of the target alone.
lockHelperAllRows(w) ==
    /\ pc[w] = "lockHelper"
    /\ LET s == getVersionSummary(db, schema[w])
       IN IF s.failed # 0
          THEN Finish(w, "previously failed", s.failed) /\ UNCHANGED db
          ELSE IF ~Found(s.vs, arg[w])
          THEN Finish(w, "cannot lock unapplied version", arg[w])
               /\ UNCHANGED db
          ELSE /\ db' = [i \in Ids |->
                           SetVersionLocked(db, i, op[w] = "Lock")[i]]
               /\ Finish(w, "nil", 0)
    /\ UNCHANGED <<fixed, op, arg, cur,
                   more, ret, db0, ran>>

\* lockHelper passing lock = true to the driver whatever the verb.
lockHelperAlwaysLocks(w) ==
    /\ pc[w] = "lockHelper"
    /\ LET s == getVersionSummary(db, schema[w])
       IN IF s.failed # 0
          THEN Finish(w, "previously failed", s.failed) /\ UNCHANGED db
          ELSE IF ~Found(s.vs, arg[w])
          THEN Finish(w, "cannot lock unapplied version", arg[w])
               /\ UNCHANGED db
          ELSE /\ db' = SetVersionLocked(db, arg[w], TRUE)
               /\ Finish(w, "nil", 0)
    /\ UNCHANGED <<fixed, op, arg, cur, more,
                   ret, db0, ran>>

lockHelper(w) ==
    /\ pc[w] = "lockHelper"
    /\ LET s == getVersionSummary(db, schema[w])
       IN IF s.failed # 0
          THEN Finish(w, "previously failed", s.failed) /\ UNCHANGED db
          ELSE IF ~Found(s.vs, arg[w])
          THEN Finish(w, "cannot lock unapplied version", arg[w])
               /\ UNCHANGED db
          ELSE /\ db' = SetVersionLocked(db, arg[w], op[w] = "Lock")
               /\ Finish(w, "nil", 0)
    /\ UNCHANGED <<fixed, op, arg, cur, more,
                   ret, db0, ran>>

\* ------------------------------------------------------ Version / Versions
\* Version reading the table through getVersionSummary.
VersionTxRejectingFailed(w) ==
    /\ pc[w] = "version"
    /\ LET s == getVersionSummary(db, schema[w])
           hit == {k \in 1..Len(s.vs.versions) :
                     s.vs.versions[k].ID = arg[w]}
       IN IF s.failed # 0
          THEN Finish(w, "previously failed", s.failed) /\ UNCHANGED ret
          ELSE IF hit = {}
          THEN Finish(w, "cannot find version", arg[w]) /\ UNCHANGED ret
          ELSE /\ ret' = Set(ret, w, <<s.vs.versions[Min(hit)]>>)
               /\ Finish(w, "nil", 0)
    /\ UNCHANGED <<db, fixed, op, arg,
                   cur, more, db0, ran>>

VersionTx(w) ==
    /\ pc[w] = "version"
    /\ LET vs == getVersionSummaryAllowFailed(db, schema[w])
           hit == {k \in 1..Len(vs.versions) : vs.versions[k].ID = arg[w]}
       IN IF hit = {}
          THEN Finish(w, "cannot find version", arg[w]) /\ UNCHANGED ret
          ELSE /\ ret' = Set(ret, w, <<vs.versions[Min(hit)]>>)
               /\ Finish(w, "nil", 0)
    /\ UNCHANGED <<db, fixed, op, arg, cur,
                   more, db0, ran>>

VersionsTx(w) ==
    /\ pc[w] = "versions"
    /\ LET s == getVersionSummary(db, schema[w])
       IN IF s.failed # 0
          THEN Finish(w, "previously failed", s.failed) /\ UNCHANGED ret
          ELSE /\ ret' = Set(ret, w, s.vs.versions)
               /\ Finish(w, "nil", 0)
    /\ UNCHANGED <<db, fixed, op, arg, cur,
                   more, db0, ran>>

\* ------------------------------------------------------------- single up
\* upOne: the transaction that picks the lowest unapplied plan and either
\* runs it inside the transaction (body outcome ok) or hands it to upOneNoTx.
upOne(w) ==
    /\ pc[w] = "upOne"
    /\ LET s == getVersionSummary(db, schema[w])
           vs == s.vs
       IN IF s.failed # 0
          THEN /\ Finish(w, "previously failed", s.failed)
               /\ UNCHANGED <<db, cur, more, ran>>
          ELSE IF Len(vs.unapplied) = 0
          THEN AfterStep(w, FALSE) /\ UNCHANGED <<db, cur, ran>>
          ELSE LET id == vs.unapplied[1]
                   m == Len(vs.unapplied) > 1
               IN IF UpEscalates(authored[id], txDDL)
                  THEN /\ cur' = Set(cur, w, id)
                       /\ more' = Set(more, w,
                                      IF op[w] = "Goto" THEN more[w] ELSE m)
                       /\ Continue(w, "upOneNoTx")
                       /\ UNCHANGED <<db, ran>>
                  ELSE \E ok \in BOOLEAN :
                       LET failed == ~(ok /\ InsertVersionOk(db, id))
                       IN /\ ran' = Set(ran, w,
                                        Append(ran[w],
                                               Body("up", id, TRUE, ok)))
                          /\ UNCHANGED cur
                          /\ db' = transact(db, InsertVersion(db, id, FALSE),
                                            failed)
                          /\ IF failed
                             THEN /\ Finish(w, "migration failed", id)
                                  /\ UNCHANGED more
                             ELSE AfterStep(w, m)
    /\ UNCHANGED <<fixed, op, arg, ret, db0>>

\* The marker row written without its failed flag.
upOneNoTxMarkerUnset == FALSE

\* The failed flag upOneNoTx writes with the new row before the body runs.
upOneNoTxMarker == TRUE

\* upOneNoTx, first transaction: insert the version row as the marker.
upOneNoTxMark(w) ==
    /\ pc[w] = "upOneNoTx"
    /\ IF cur[w] \notin schema[w]
       THEN Finish(w, "missing plan", cur[w]) /\ UNCHANGED db
       ELSE IF ~InsertVersionOk(db, cur[w])
       THEN Finish(w, "insert failed", cur[w]) /\ UNCHANGED db
       ELSE /\ db' = InsertVersion(db, cur[w], upOneNoTxMarker)
            /\ Continue(w, "upBody")
    /\ UNCHANGED <<fixed, op, arg, cur, more,
                   ret, db0, ran>>

\* upOneNoTx, the up function or up SQL run outside any transaction.
upOneNoTxBody(w) ==
    /\ pc[w] = "upBody"
    /\ \E ok \in BOOLEAN :
         /\ ran' = Set(ran, w, Append(ran[w], Body("up", cur[w], FALSE, ok)))
         /\ IF ok THEN Continue(w, "upClear")
            ELSE Finish(w, "migration failed", cur[w])
    /\ UNCHANGED <<db, fixed, op, arg, cur,
                   more, ret, db0>>

\* upOneNoTx, last transaction: clear the failed flag.
upOneNoTxClear(w) ==
    /\ pc[w] = "upClear"
    /\ db' = SetVersionFailed(db, cur[w], FALSE)
    /\ AfterStep(w, more[w])
    /\ UNCHANGED <<fixed, op, arg, cur, ret,
                   db0, ran>>

\* ----------------------------------------------------------- single down
\* The lock test dropped: no version counts as locked.
versionLockedNever(d, id) == FALSE

\* The lock test that takes every version for locked.
versionLockedAlways(d, id) == TRUE

\* downOne's test of the Locked field of the version it is about to reverse.
versionLocked(d, id) == d[id].locked

\* The locked branch returning an error instead of nil.
downOneLockedAsError(w) ==
    Finish(w, "version locked", Max(Rows(db))) /\ UNCHANGED more

\* downOne's branch for a locked version: log, return nil with more = false.
downOneLocked(w) == AfterStep(w, FALSE)

\* downOne: the transaction that picks the highest applied plan, stops at a
\* locked version, and either reverses the plan inside the transaction or
\* hands it to downOneNoTx.
downOne(w) ==
    /\ pc[w] = "downOne"
    /\ LET s == getVersionSummary(db, schema[w])
           vs == s.vs
       IN IF s.failed # 0
          THEN /\ Finish(w, "previously failed", s.failed)
               /\ UNCHANGED <<db, cur, more, ran>>
          ELSE IF Len(vs.applied) = 0
          THEN AfterStep(w, FALSE) /\ UNCHANGED <<db, cur, ran>>
          ELSE LET id == vs.applied[1]
                   m == Len(vs.applied) > 1
               IN IF versionLocked(db, id)
                  THEN downOneLocked(w) /\ UNCHANGED <<db, cur, ran>>
                  ELSE IF DownEscalates(authored[id], txDDL)
                  THEN /\ cur' = Set(cur, w, id)
                       /\ more' = Set(more, w,
                                      IF op[w] = "Goto" THEN more[w] ELSE m)
                       /\ Continue(w, "downOneNoTx")
                       /\ UNCHANGED <<db, ran>>
                  ELSE \E ok \in BOOLEAN :
                       /\ ran' = Set(ran, w,
                                     Append(ran[w],
                                            Body("down", id, TRUE, ok)))
                       /\ UNCHANGED cur
                       /\ db' = transact(db, DeleteVersion(db, id), ~ok)
                       /\ IF ok
                          THEN AfterStep(w, m)
                          ELSE /\ Finish(w, "migration failed", id)
                               /\ UNCHANGED more
    /\ UNCHANGED <<fixed, op, arg, ret, db0>>

\* The failed flag downOneNoTx writes to the row before the body runs.
downOneNoTxMarker == FALSE

\* downOneNoTx, first transaction: write the marker to the existing row.
downOneNoTxMark(w) ==
    /\ pc[w] = "downOneNoTx"
    /\ IF cur[w] \notin schema[w]
       THEN Finish(w, "missing plan", cur[w]) /\ UNCHANGED db
       ELSE /\ db' = SetVersionFailed(db, cur[w], downOneNoTxMarker)
            /\ Continue(w, "downBody")
    /\ UNCHANGED <<fixed, op, arg, cur, more,
                   ret, db0, ran>>

\* downOneNoTx, the down function or down SQL run outside any transaction.
downOneNoTxBody(w) ==
    /\ pc[w] = "downBody"
    /\ \E ok \in BOOLEAN :
         /\ ran' = Set(ran, w,
                       Append(ran[w], Body("down", cur[w], FALSE, ok)))
         /\ IF ok THEN Continue(w, "downDelete")
            ELSE Finish(w, "migration failed", cur[w])
    /\ UNCHANGED <<db, fixed, op, arg, cur,
                   more, ret, db0>>

\* downOneNoTx, last transaction: delete the version row.
downOneNoTxDelete(w) ==
    /\ pc[w] = "downDelete"
    /\ db' = DeleteVersion(db, cur[w])
    /\ AfterStep(w, more[w])
    /\ UNCHANGED <<fixed, op, arg, cur, ret,
                   db0, ran>>

\* ------------------------------------------------------------------- Goto
\* The down count that finds nothing to reverse.
downCountNone(applied, k, id) == 0

\* gotoOne's count of down migrations: applied plans above the target.
RECURSIVE downCount(_, _, _)
downCount(applied, k, id) ==
    IF k > Len(applied) THEN 0
    ELSE IF applied[k] <= id THEN 0
    ELSE 1 + downCount(applied, k + 1, id)

\* The up count stopping at the target itself.
RECURSIVE upCountBelow(_, _, _)
upCountBelow(unapplied, k, id) ==
    IF k > Len(unapplied) THEN 0
    ELSE IF unapplied[k] >= id THEN 0
    ELSE 1 + upCountBelow(unapplied, k + 1, id)

\* gotoOne's count of up migrations: unapplied plans not above the target.
RECURSIVE upCount(_, _, _)
upCount(unapplied, k, id) ==
    IF k > Len(unapplied) THEN 0
    ELSE IF unapplied[k] > id THEN 0
    ELSE 1 + upCount(unapplied, k + 1, id)

\* gotoOne: the counting transaction; the single step it then calls is the
\* next action of the worker (downOne before upOne).
gotoOne(w) ==
    /\ pc[w] = "gotoOne"
    /\ LET s == getVersionSummary(db, schema[w])
           lk == checkLocked(db, s.vs, arg[w])
           dn == downCount(s.vs.applied, 1, arg[w])
           up == upCount(s.vs.unapplied, 1, arg[w])
       IN IF s.failed # 0
          THEN Finish(w, "previously failed", s.failed) /\ UNCHANGED more
          ELSE IF lk # 0
          THEN Finish(w, "version locked", lk) /\ UNCHANGED more
          ELSE IF dn > 0
          THEN /\ more' = Set(more, w, up + dn - 1 > 0)
               /\ Continue(w, "downOne")
          ELSE IF up > 0
          THEN /\ more' = Set(more, w, up + dn - 1 > 0)
               /\ Continue(w, "upOne")
          ELSE Finish(w, "nil", 0) /\ more' = Set(more, w, FALSE)
    /\ UNCHANGED <<db, fixed, op, arg, cur,
                   ret, db0, ran>>

\* ------------------------------------------------------------ environment
\* The operation in flight is cut short between two steps: the context is
\* cancelled, a transaction cannot begin or commit, or the process stops.
\* The caller gets an error and nothing more is written.
Stop(w) ==
    /\ pc[w] \notin {"idle", "done", "off"}
    /\ Finish(w, "stopped", 0)
    /\ UNCHANGED <<db, fixed, op, arg, cur,
                   more, ret, db0, ran>>

\* NewWorker: a later build, whose schema defines further versions (for
\* instance after a branch merge), opens the same database.
NewWorker(w, s) ==
    /\ pc[w] = "idle"
    /\ schema[w] \subseteq s /\ s # schema[w]
    /\ schema' = Set(schema, w, s)
    /\ initCalled' = Set(initCalled, w, FALSE)
    /\ created' = Set(created, w, 0)
    /\ trail' = Set(trail, w, NoTrail)
    /\ UNCHANGED <<db, txDDL, authored, pc, op, arg, cur, more, result, errId,
                   ret, db0, ran, planVars>>

\* The caller has taken the outcome of the returned operation; the worker is
\* ready for its next call.
Ready(w) ==
    /\ pc[w] = "done"
    /\ pc' = Set(pc, w, "idle")
    /\ op' = Set(op, w, "none")
    /\ arg' = Set(arg, w, 0)
    /\ cur' = Set(cur, w, 0)
    /\ more' = Set(more, w, FALSE)
    /\ result' = Set(result, w, "none")
    /\ errId' = Set(errId, w, 0)
    /\ ret' = Set(ret, w, <<>>)
    /\ db0' = Set(db0, w, EmptyTable)
    /\ ran' = Set(ran, w, <<>>)
    /\ trail' = Set(trail, w, TrailAfter(trail[w], op[w], arg[w], result[w],
                                         db0[w]))
    /\ UNCHANGED <<db, txDDL, authored, schema, initCalled, created,
                   planVars>>

\* ------------------------------------------------------------------ next
Next ==
    \E w \in Workers :
        \/ Up(w)
        \/ Down(w)
        \/ \E id \in Args : Goto(w, id)
        \/ \E id \in Args : Force(w, id)
        \/ \E id \in Args : Lock(w, id)
        \/ \E id \in Args : Unlock(w, id)
        \/ \E id \in Args : Version(w, id)
        \/ Versions(w)
        \/ ForceTx(w)
        \/ lockHelper(w)
        \/ VersionTx(w)
        \/ VersionsTx(w)
        \/ upOne(w)
        \/ upOneNoTxMark(w)
        \/ upOneNoTxBody(w)
        \/ upOneNoTxClear(w)
        \/ downOne(w)
        \/ downOneNoTxMark(w)
        \/ downOneNoTxBody(w)
        \/ downOneNoTxDelete(w)
        \/ gotoOne(w)
        \/ Stop(w)
        \/ Ready(w)
        \/ \E s \in SUBSET Ids : NewWorker(w, s)

Spec == Init /\ [][Next]_vars

\* ------------------------------------------------------------ other builds
\* NewWorker by a build whose schema lacks a version this one defines (an
\* earlier release, another branch): rows of the lacking versions stay in the
\* table without a plan in the schema.
OlderWorker(w, s) ==
    /\ pc[w] = "idle"
    /\ s # {} /\ ~(schema[w] \subseteq s)
    /\ schema' = Set(schema, w, s)
    /\ initCalled' = Set(initCalled, w, FALSE)
    /\ created' = Set(created, w, 0)
    /\ trail' = Set(trail, w, NoTrail)
    /\ UNCHANGED <<db, txDDL, authored, pc, op, arg, cur, more, result, errId,
                   ret, db0, ran, planVars>>

NextAnyBuild ==
    \/ Next
    \/ \E w \in Workers : \E s \in SUBSET Ids : OlderWorker(w, s)

SpecAnyBuild == Init /\ [][NextAnyBuild]_vars

\* ------------------------------------------------------ schema definition
\* The program that defines its schema: Schema.Define gives a definition,
\* the Up... / Down... methods set its executors, and the plan of the
\* definition is built on the plans of the versions before it.
InitPlan ==
    /\ db = EmptyTable
    /\ txDDL = TRUE
    /\ authored = Authored(0)
    /\ schema = [w \in Workers |-> Ids]
    /\ initCalled = [w \in Workers |-> FALSE]
    /\ created = [w \in Workers |-> 0]
    /\ pc = [w \in Workers |-> IF w = 1 THEN "idle" ELSE "off"]
    /\ op = [w \in Workers |-> "none"]
    /\ arg = [w \in Workers |-> 0]
    /\ cur = [w \in Workers |-> 0]
    /\ more = [w \in Workers |-> FALSE]
    /\ result = [w \in Workers |-> "none"]
    /\ errId = [w \in Workers |-> 0]
    /\ ret = [w \in Workers |-> <<>>]
    /\ db0 = [w \in Workers |-> EmptyTable]
    /\ ran = [w \in Workers |-> <<>>]
    /\ trail = [w \in Workers |-> NoTrail]
    /\ definition = newDefinition
    /\ prev = <<>>
    /\ plan = NoPlan

\* Definition.Up, called once on a definition whose plan is not built yet.
DefinitionUp(sql) ==
    /\ ~plan.built /\ definition.upSQL = <<>>
    /\ definition' = [definition EXCEPT !.upSQL = sql]
    /\ UNCHANGED <<workerVars, prev, plan>>

DefinitionUpDB ==
    /\ ~plan.built /\ ~definition.upDB
    /\ definition' = [definition EXCEPT !.upDB = TRUE]
    /\ UNCHANGED <<workerVars, prev, plan>>

DefinitionUpTx ==
    /\ ~plan.built /\ ~definition.upTx
    /\ definition' = [definition EXCEPT !.upTx = TRUE]
    /\ UNCHANGED <<workerVars, prev, plan>>

DefinitionDown(sql) ==
    /\ ~plan.built /\ definition.downSQL = <<>>
    /\ definition' = [definition EXCEPT !.downSQL = sql]
    /\ UNCHANGED <<workerVars, prev, plan>>

DefinitionDownDB ==
    /\ ~plan.built /\ ~definition.downDB
    /\ definition' = [definition EXCEPT !.downDB = TRUE]
    /\ UNCHANGED <<workerVars, prev, plan>>

DefinitionDownTx ==
    /\ ~plan.built /\ ~definition.downTx
    /\ definition' = [definition EXCEPT !.downTx = TRUE]
    /\ UNCHANGED <<workerVars, prev, plan>>

\* The schema builds the plan of the definition.
BuildPlan ==
    /\ ~plan.built
    /\ plan' = newPlan(definition, prev)
    /\ UNCHANGED <<workerVars, definition, prev>>

\* Schema.Define of the next version: the plan just built becomes the last
\* of the earlier plans.  Kept to the versions of EarlierTexts, of one
\* action, whose down SQL was derived without error.
Define ==
    /\ plan.built /\ Len(prev) < MaxPrev
    /\ definition.upSQL \in EarlierTexts
    /\ plan.errs = <<>> /\ Len(downMethods(definition)) = 0
    /\ Len(plan.actions) = 1
    /\ prev' = Append(prev, [upSQL |-> definition.upSQL,
                             actions |-> plan.actions])
    /\ definition' = newDefinition
    /\ plan' = NoPlan
    /\ UNCHANGED workerVars

\* Another definition is written in place of the one just planned.
Redefine ==
    /\ plan.built
    /\ definition' = newDefinition
    /\ plan' = NoPlan
    /\ UNCHANGED <<workerVars, prev>>

NextPlan ==
    \/ \E sql \in UpTexts : DefinitionUp(sql)
    \/ DefinitionUpDB
    \/ DefinitionUpTx
    \/ DefinitionDown(DownText)
    \/ DefinitionDownDB
    \/ DefinitionDownTx
    \/ BuildPlan
    \/ Define
    \/ Redefine

SpecPlan == InitPlan /\ [][NextPlan]_vars

\* ------------------------------------------------------------ two workers
\* Two workers of one build, with a schema of a single version, opened on
\* the same database and driven at the same time; their transactions
\* interleave.
InitConcurrent ==
    /\ db = EmptyTable
    /\ txDDL \in BOOLEAN
    /\ \E n \in 0..MaxVariant : authored = Authored(n)
    /\ schema = [w \in Workers |-> {1}]
    /\ initCalled = [w \in Workers |-> FALSE]
    /\ created = [w \in Workers |-> 0]
    /\ pc = [w \in Workers |-> "idle"]
    /\ op = [w \in Workers |-> "none"]
    /\ arg = [w \in Workers |-> 0]
    /\ cur = [w \in Workers |-> 0]
    /\ more = [w \in Workers |-> FALSE]
    /\ result = [w \in Workers |-> "none"]
    /\ errId = [w \in Workers |-> 0]
    /\ ret = [w \in Workers |-> <<>>]
    /\ db0 = [w \in Workers |-> EmptyTable]
    /\ ran = [w \in Workers |-> <<>>]
    /\ trail = [w \in Workers |-> NoTrail]
    /\ definition = newDefinition
    /\ prev = <<>>
    /\ plan = NoPlan

NextConcurrent ==
    \E w \in Workers :
        \/ Up(w)
        \/ Down(w)
        \/ \E id \in Args : Goto(w, id)
        \/ upOne(w)
        \/ upOneNoTxMark(w)
        \/ upOneNoTxBody(w)
        \/ upOneNoTxClear(w)
        \/ downOne(w)
        \/ downOneNoTxMark(w)
        \/ downOneNoTxBody(w)
        \/ downOneNoTxDelete(w)
        \/ gotoOne(w)
        \/ Ready(w)

SpecConcurrent == InitConcurrent /\ [][NextConcurrent]_vars

\* ================================================================= claims
HasFailed(d) == \E i \in Ids : d[i].applied /\ d[i].failed

FailedIds(d) == {i \in Ids : d[i].applied /\ d[i].failed}

LockedIds(d) == {i \in Ids : d[i].applied /\ d[i].locked}

\* Outcomes decided by the environment, not by the worker's logic.
EnvErrors == {"stopped", "create table failed"}

Last(q) == q[Len(q)]

InCall(w) == pc[w] \notin {"idle", "off"}

Returned(w, o) == pc[w] = "done" /\ op[w] = o /\ result[w] \notin EnvErrors

\* C1: a call of Up, Down, Goto (with an id checkVersion accepts) or Versions
\* made while some version row has failed=true changes no row and runs no
\* migration body, and returns the "previously failed" error naming a failed
\* version.
C1_FailedBlocksOperations ==
    \A w \in Workers :
        (InCall(w) /\ op[w] \in {"Up", "Down", "Goto", "Versions"}
         /\ HasFailed(db0[w]))
        => /\ db = db0[w]
           /\ ran[w] = <<>>
           /\ (pc[w] = "done" /\ result[w] \notin EnvErrors
               /\ result[w] # "invalid version id")
              => /\ result[w] = "previously failed"
                 /\ errId[w] \in FailedIds(db0[w])

C1_Witness ==
    \E w \in Workers :
        /\ Returned(w, "Goto")
        /\ HasFailed(db0[w])
        /\ LockedIds(db0[w]) # {}
        /\ result[w] = "previously failed"

\* C2: on the non-transactional up path the row of the version is in the
\* table with failed=true whenever its body is about to run or has run and
\* the flag is not yet cleared; a failed row of a version changes only by
\* the clearing transaction that follows a body that returned success (or by
\* Force); and whenever the step ends with an error before the clearing
\* transaction (body error, cancellation, stop) the row is left present
\* with failed=true.
C2_UpMarkerProtocol ==
    [][\A w \in Workers :
         /\ pc'[w] \in {"upBody", "upClear"}
            => db'[cur'[w]] = Row(TRUE, FALSE)
         /\ pc'[w] = "upClear"
            => ran'[w] # <<>> /\ Last(ran'[w]) = Body("up", cur'[w], FALSE, TRUE)
         /\ \A i \in Ids :
              (op[w] \in {"Up", "Goto"} /\ InCall(w)
               /\ db[i].applied /\ db[i].failed /\ db'[i] # db[i])
              => /\ pc[w] = "upClear" /\ cur[w] = i
                 /\ Last(ran[w]) = Body("up", i, FALSE, TRUE)
                 /\ db'[i] = Row(FALSE, FALSE)
         /\ (pc[w] \in {"upBody", "upClear"} /\ pc'[w] = "done"
             /\ result'[w] # "nil")
            => db'[cur[w]] = Row(TRUE, FALSE)
         /\ (pc[w] = "upBody" /\ pc'[w] = "done")
            => result'[w] \in {"migration failed", "stopped"}
      ]_vars

C2_Witness ==
    \E w \in Workers :
        /\ pc[w] = "done"
        /\ op[w] = "Up"
        /\ result[w] = "migration failed"
        /\ Len(ran[w]) = 2
        /\ ran[w][1].ok /\ ~ran[w][1].tx
        /\ Last(ran[w]) = Body("up", cur[w], FALSE, FALSE)
        /\ db[cur[w]] = Row(TRUE, FALSE)
        /\ db[ran[w][1].id] = Row(FALSE, FALSE)

\* C3: on the non-transactional down path the row of the version has
\* failed=true while its body runs, and a body that fails leaves the row
\* present with failed=true.
C3_DownMarkerSet ==
    \A w \in Workers :
        /\ pc[w] \in {"downBody", "downDelete"} => db[cur[w]].failed
        /\ (pc[w] = "done" /\ ran[w] # <<>>
            /\ Last(ran[w]) = Body("down", cur[w], FALSE, FALSE))
           => db[cur[w]].applied /\ db[cur[w]].failed

\* C4: after Force(id) returns nil, every row above the target is gone and
\* the row of the target is still there.
C4_ForceRollsBackToTarget ==
    \A w \in Workers :
        (Returned(w, "Force") /\ result[w] = "nil")
        => /\ \A i \in Ids : i > arg[w] => ~db[i].applied
           /\ db[arg[w]].applied

\* C5: Force(V) on the only failed version V returns nil, leaves the row of
\* V with failed=false and runs no body; no failed row is left to make a
\* later call fail with "previously failed".  Stated for the case where no
\* applied version above V is locked (otherwise Force is refused).
C5_ForceClearsFailed ==
    \A w \in Workers :
        (Returned(w, "Force") /\ FailedIds(db0[w]) = {arg[w]}
         /\ checkLocked(db0[w],
                        getVersionSummaryAllowFailed(db0[w], schema[w]),
                        arg[w]) = 0)
        => /\ result[w] = "nil"
           /\ db[arg[w]].applied /\ ~db[arg[w]].failed
           /\ ran[w] = <<>>
           /\ ~HasFailed(db)

\* C6: no call of Up, Down, Goto or Force deletes the row of a version that
\* was locked when the call was made.
C6_LockedRowsStay ==
    \A w \in Workers :
        (InCall(w) /\ op[w] \in {"Up", "Down", "Goto", "Force"})
        => \A i \in LockedIds(db0[w]) : db[i].applied

LockedAbove(d, id) == {i \in LockedIds(d) : i > id}

AllBodiesOk(w) == \A k \in 1..Len(ran[w]) : ran[w][k].ok

Reversed(w, i) ==
    \E k \in 1..Len(ran[w]) :
        ran[w][k].dir = "down" /\ ran[w][k].id = i /\ ran[w][k].ok

StopAt(d) == IF LockedIds(d) = {} THEN 0 ELSE Max(LockedIds(d))

DownStoppedAtLock(w) ==
    /\ \A i \in Ids : i <= StopAt(db0[w]) => db[i] = db0[w][i]
    /\ \A i \in Ids : i > StopAt(db0[w]) => ~db[i].applied
    /\ \A i \in Rows(db0[w]) : i > StopAt(db0[w]) => Reversed(w, i)

\* C8 as stated: whenever Down returns with the highest applied version
\* locked (it was so at the call, or the versions above it have been
\* reversed), it returns nil, the locked version and everything below it
\* are still applied and everything above it has been reversed.
C8_DownSoftStopAsStated ==
    \A w \in Workers :
        (Returned(w, "Down") /\ Rows(db) # {}
         /\ versionLocked(db, Max(Rows(db))))
        => result[w] = "nil" /\ DownStoppedAtLock(w)

\* C8 (amended): when no version row is failed and an applied version is
\* locked, Down whose bodies succeed returns nil (a lock is never an error
\* for Down); afterwards the highest locked version and every row below it
\* are as before, and every version applied above it has been reversed.
C8_DownSoftStop ==
    \A w \in Workers :
        (Returned(w, "Down") /\ LockedIds(db0[w]) # {}
         /\ ~HasFailed(db0[w]))
        => /\ result[w] \in {"nil", "migration failed"}
           /\ AllBodiesOk(w) => result[w] = "nil"
           /\ result[w] = "nil" => DownStoppedAtLock(w)

C8_Witness ==
    \E w \in Workers :
        /\ Returned(w, "Down")
        /\ result[w] = "nil"
        /\ Len(ran[w]) = 1
        /\ StopAt(db0[w]) = 2
        /\ Rows(db) = {1, 2}

\* C9 as stated: with an applied version locked, Down fails with "version
\* locked" naming a locked version.
C9_DownLockedErrorAsStated ==
    \A w \in Workers :
        (Returned(w, "Down") /\ LockedIds(db0[w]) # {})
        => result[w] = "version locked" /\ errId[w] \in LockedIds(db0[w])

\* C9 (amended): after Lock(V) on an applied version V, a call to Down never
\* fails with "version locked": it stops at V without that error and leaves
\* the row of V applied and locked.
C9_DownNeverLockedError ==
    \A w \in Workers :
        (InCall(w) /\ op[w] = "Down")
        => /\ result[w] # "version locked"
           /\ \A i \in LockedIds(db0[w]) : db[i] = db0[w][i]

C9_Witness ==
    \E w \in Workers :
        /\ Returned(w, "Down")
        /\ result[w] = "nil"
        /\ ran[w] = <<>>
        /\ Rows(db0[w]) # {}
        /\ StopAt(db0[w]) = Max(Rows(db0[w]))

C11_GotoUndefinedRejected ==
    \A w \in Workers :
        (InCall(w) /\ op[w] = "Goto" /\ arg[w] # 0 /\ arg[w] \notin schema[w])
        => /\ pc[w] = "done"
           /\ result[w] = "invalid version id"
           /\ errId[w] = arg[w]
           /\ db = db0[w]
           /\ ran[w] = <<>>

C11_Witness ==
    \E w \in Workers :
        /\ Returned(w, "Goto")
        /\ arg[w] = 2
        /\ schema[w] = {1, 3}
        /\ Rows(db0[w]) = {1, 3}
        /\ result[w] = "invalid version id"

\* C12: Goto(0) passes the id validation and, with no locked and no failed
\* version and succeeding bodies, returns nil with every applied version
\* reversed and no row left.
C12_GotoZeroFullyDown ==
    \A w \in Workers :
        (InCall(w) /\ op[w] = "Goto" /\ arg[w] = 0)
        => /\ result[w] # "invalid version id"
           /\ (Returned(w, "Goto") /\ ~HasFailed(db0[w])
               /\ LockedIds(db0[w]) = {} /\ AllBodiesOk(w))
              => /\ result[w] = "nil"
                 /\ Rows(db) = {}
                 /\ \A i \in Rows(db0[w]) : Reversed(w, i)

\* C13: Up called with no failed row, all of whose bodies succeed, returns
\* nil; afterwards every version of the schema has a row with failed=false
\* and every row that was there before the call is unchanged.
C13_UpAppliesAll ==
    \A w \in Workers :
        (Returned(w, "Up") /\ ~HasFailed(db0[w]) /\ AllBodiesOk(w))
        => /\ result[w] = "nil"
           /\ \A i \in schema[w] : db[i].applied /\ ~db[i].failed
           /\ \A i \in Rows(db0[w]) : db[i] = db0[w][i]

C13_Witness ==
    \E w \in Workers :
        /\ Returned(w, "Up")
        /\ result[w] = "nil"
        /\ db0[w][2] = Row(FALSE, TRUE)
        /\ Rows(db0[w]) = {2}
        /\ Rows(db) = Ids
        /\ Len(ran[w]) = 2
        /\ ran[w][1].tx /\ ~ran[w][2].tx

\* The lowest-id version of the worker's schema that has no row.
LowestUnapplied(w) == Min(schema[w] \ Rows(db))

Grew(w) == Len(ran'[w]) = Len(ran[w]) + 1

\* C14: during Up every step applies the lowest-id unapplied version of the
\* schema: the row a step inserts and the body it runs are those of that
\* version, also when a higher version is applied already, and the bodies
\* of one call run in strictly ascending id order.
C14_UpAscendingOrder ==
    [][\A w \in Workers :
         (InCall(w) /\ op[w] = "Up")
         => /\ \A i \in Ids :
                 (~db[i].applied /\ db'[i].applied) => i = LowestUnapplied(w)
            /\ (pc[w] = "upOne" /\ Grew(w))
               => Last(ran'[w]).id = LowestUnapplied(w)
            /\ (pc[w] = "upBody" /\ Grew(w))
               => /\ Last(ran'[w]).id = cur[w]
                  /\ \A i \in schema[w] : i < cur[w] => db[i].applied
            /\ \A k \in 1..(Len(ran'[w]) - 1) :
                 ran'[w][k].id < ran'[w][k + 1].id
      ]_vars

C14_Witness ==
    \E w \in Workers :
        /\ Returned(w, "Up")
        /\ result[w] = "nil"
        /\ Rows(db0[w]) = {3}
        /\ Len(ran[w]) = 2
        /\ ran[w][1].id = 1 /\ ran[w][2].id = 2

\* C15: Down called on a table with no failed and no locked row (the table
\* Up leaves for a schema without locks and failures), all of whose bodies
\* succeed, returns nil with every applied version reversed and no row left,
\* on the transactional and on the non-transactional path alike.
C15_UpThenDownEmpty ==
    \A w \in Workers :
        (Returned(w, "Down") /\ ~HasFailed(db0[w]) /\ LockedIds(db0[w]) = {}
         /\ AllBodiesOk(w))
        => /\ result[w] = "nil"
           /\ Rows(db) = {}
           /\ \A i \in Rows(db0[w]) : Reversed(w, i)

C15_Witness ==
    \E w \in Workers :
        /\ Returned(w, "Down")
        /\ result[w] = "nil"
        /\ schema[w] = Ids
        /\ Rows(db0[w]) = Ids
        /\ Rows(db) = {}
        /\ \E k \in 1..Len(ran[w]) : ran[w][k].tx
        /\ \E k \in 1..Len(ran[w]) : ~ran[w][k].tx

\* C16: a step on the transactional path whose body or bookkeeping write
\* fails returns the error and leaves the table as it was before the step;
\* a step of upOne / downOne changes a row only by inserting (up) or deleting
\* (down) the row of the version whose body succeeded in that transaction.
C16_TxStepAtomic ==
    [][\A w \in Workers :
         /\ (Grew(w) /\ Last(ran'[w]).tx)
            => LET b == Last(ran'[w])
               IN IF b.ok /\ (b.dir = "up" => InsertVersionOk(db, b.id))
                  THEN db' = IF b.dir = "up"
                             THEN InsertVersion(db, b.id, FALSE)
                             ELSE DeleteVersion(db, b.id)
                  ELSE /\ db' = db
                       /\ pc'[w] = "done"
                       /\ result'[w] = "migration failed"
                       /\ errId'[w] = b.id
         /\ (pc[w] \in {"upOne", "downOne"} /\ db' # db)
            => /\ Grew(w)
               /\ Last(ran'[w]).tx /\ Last(ran'[w]).ok
      ]_vars

C16_Witness ==
    \E w \in Workers :
        /\ Returned(w, "Down")
        /\ result[w] = "migration failed"
        /\ Len(ran[w]) = 2
        /\ ran[w][1].tx /\ ran[w][1].ok
        /\ Last(ran[w]) = Body("down", errId[w], TRUE, FALSE)
        /\ Rows(db) = Rows(db0[w]) \ {ran[w][1].id}
        /\ db[errId[w]] = db0[w][errId[w]]

\* The executor kinds that run inside the step's transaction: a transactional
\* function, or SQL on a driver with transactional DDL.
InTxKind(k) == k = "tx" \/ (k = "sql" /\ txDDL)

\* The executor kinds that are escalated: a non-transactional function, or
\* SQL on a driver without transactional DDL.
NoTxKind(k) == k = "db" \/ (k = "sql" /\ ~txDDL)

KindOf(b) == IF b.dir = "up" THEN authored[b.id].up ELSE authored[b.id].down

\* C17: a body runs inside the step's transaction exactly when its executor
\* is a transactional function or SQL with transactional DDL, and a step is
\* handed to the marker protocol exactly when its executor is a
\* non-transactional function or SQL without transactional DDL.
C17_PathChoice ==
    [][\A w \in Workers :
         /\ Grew(w)
            => /\ Last(ran'[w]).tx <=> InTxKind(KindOf(Last(ran'[w])))
               /\ ~Last(ran'[w]).tx <=> NoTxKind(KindOf(Last(ran'[w])))
         /\ (pc[w] = "upOne" /\ pc'[w] = "upOneNoTx")
            => NoTxKind(authored[cur'[w]].up)
         /\ (pc[w] = "downOne" /\ pc'[w] = "downOneNoTx")
            => NoTxKind(authored[cur'[w]].down)
         /\ (pc[w] = "upOne" /\ Grew(w))
            => InTxKind(authored[LowestUnapplied(w)].up)
         /\ (pc[w] = "downOne" /\ Grew(w))
            => InTxKind(authored[Max(Rows(db))].down)
      ]_vars

C17_Witness ==
    \E w \in Workers :
        /\ ~txDDL
        /\ Len(ran[w]) = 2
        /\ ~ran[w][1].tx /\ KindOf(ran[w][1]) = "sql"
        /\ ran[w][2].tx /\ KindOf(ran[w][2]) = "tx"
        /\ ran[w][2].dir = "up"

\* C18 as stated: Force(id) for a defined id without a row returns the
\* "cannot force unapplied version" error and changes no row.
C18_ForceUnappliedAsStated ==
    \A w \in Workers :
        (Returned(w, "Force") /\ arg[w] \in schema[w]
         /\ ~db0[w][arg[w]].applied)
        => /\ result[w] = "cannot force unapplied version"
           /\ db = db0[w]

\* C18 (amended): Force(id) for a defined id without a row returns an error
\* and changes no row: "cannot force unapplied version" when no applied
\* version above id is locked, "version locked" when one is.
C18_ForceUnapplied ==
    \A w \in Workers :
        (InCall(w) /\ op[w] = "Force" /\ arg[w] \in schema[w]
         /\ ~db0[w][arg[w]].applied)
        => /\ db = db0[w]
           /\ ran[w] = <<>>
           /\ Returned(w, "Force")
              => /\ result[w] = IF LockedAbove(db0[w], arg[w]) = {}
                                THEN "cannot force unapplied version"
                                ELSE "version locked"
                 /\ errId[w] = IF LockedAbove(db0[w], arg[w]) = {}
                               THEN arg[w]
                               ELSE Max(LockedAbove(db0[w], arg[w]))

C18_Witness ==
    \E w \in Workers :
        /\ Returned(w, "Force")
        /\ arg[w] = 2
        /\ Rows(db0[w]) = {1, 3}
        /\ HasFailed(db0[w])
        /\ result[w] = "cannot force unapplied version"

\* C19: Force(id), for an id checkVersion accepts, returns the "version
\* locked" error naming a locked applied version above the target, and
\* changes no row, whenever some applied version above the target is locked.
C19_ForceLocked ==
    \A w \in Workers :
        (InCall(w) /\ op[w] = "Force" /\ arg[w] \in schema[w]
         /\ LockedAbove(db0[w], arg[w]) # {})
        => /\ db = db0[w]
           /\ ran[w] = <<>>
           /\ Returned(w, "Force")
              => /\ result[w] = "version locked"
                 /\ errId[w] \in LockedAbove(db0[w], arg[w])

C19_Witness ==
    \E w \in Workers :
        /\ Returned(w, "Force")
        /\ arg[w] \in schema[w]
        /\ db0[w][arg[w]].applied /\ db0[w][arg[w]].failed
        /\ LockedAbove(db0[w], arg[w]) # {}
        /\ result[w] = "version locked"

LockOps == {"Lock", "Unlock"}

\* C20 as stated: Lock(id) / Unlock(id) on an applied version returns nil
\* having set / cleared the locked flag of that row and nothing else; on a
\* defined version without a row it returns an error and changes nothing.
C20_LockFrameAsStated ==
    \A w \in Workers :
        (pc[w] = "done" /\ op[w] \in LockOps /\ result[w] \notin EnvErrors
         /\ arg[w] \in schema[w])
        => IF db0[w][arg[w]].applied
           THEN /\ result[w] = "nil"
                /\ db = [db0[w] EXCEPT ![arg[w]].locked = (op[w] = "Lock")]
           ELSE /\ result[w] # "nil"
                /\ db = db0[w]

\* C20 (amended): Lock(id) / Unlock(id) never changes another row or
\* another flag; when no version row is failed, on an applied version it
\* returns nil having set / cleared that row's locked flag, and on a defined
\* version without a row it returns the "cannot lock unapplied version"
\* error and changes nothing; when some version row is failed it returns
\* "previously failed" and changes nothing.
C20_LockFrame ==
    \A w \in Workers :
        (InCall(w) /\ op[w] \in LockOps /\ arg[w] \in schema[w])
        => /\ \A i \in Ids : i # arg[w] => db[i] = db0[w][i]
           /\ db[arg[w]].applied = db0[w][arg[w]].applied
           /\ db[arg[w]].failed = db0[w][arg[w]].failed
           /\ ran[w] = <<>>
           /\ (pc[w] = "done" /\ result[w] \notin EnvErrors)
              => IF HasFailed(db0[w])
                 THEN result[w] = "previously failed" /\ db = db0[w]
                 ELSE IF db0[w][arg[w]].applied
                 THEN /\ result[w] = "nil"
                      /\ db[arg[w]].locked = (op[w] = "Lock")
                 ELSE /\ result[w] = "cannot lock unapplied version"
                      /\ db = db0[w]

C20_Witness ==
    \E w \in Workers :
        /\ pc[w] = "done" /\ op[w] = "Unlock"
        /\ result[w] = "nil"
        /\ Cardinality(LockedIds(db0[w])) = 2
        /\ LockedIds(db) = LockedIds(db0[w]) \ {arg[w]}

C22_VersionRecord ==
    \A w \in Workers :
        Returned(w, "Version")
        => /\ db = db0[w]
           /\ IF arg[w] \in schema[w]
              THEN /\ result[w] = "nil"
                   /\ Len(ret[w]) = 1
                   /\ ret[w][1].ID = arg[w]
                   /\ ret[w][1].AppliedAt = db0[w][arg[w]].applied
                   /\ ret[w][1].Failed = db0[w][arg[w]].failed
                   /\ ret[w][1].Locked = db0[w][arg[w]].locked
              ELSE /\ result[w] = "invalid version id"
                   /\ ret[w] = <<>>

C22_Witness ==
    \E w \in Workers :
        /\ Returned(w, "Version")
        /\ result[w] = "nil"
        /\ Cardinality(FailedIds(db0[w])) = 1
        /\ ret[w][1].Failed /\ ret[w][1].AppliedAt

\* C23: when no version is failed, Versions returns nil and exactly one
\* record per known version (defined or with a row), in ascending id order,
\* whose applied timestamp is set exactly for the versions that have a row.
C23_VersionsList ==
    \A w \in Workers :
        (Returned(w, "Versions") /\ ~HasFailed(db0[w]))
        => LET known == Ascending(Rows(db0[w]) \cup schema[w])
           IN /\ result[w] = "nil"
              /\ Len(ret[w]) = Len(known)
              /\ \A k \in 1..Len(known) :
                   /\ ret[w][k].ID = known[k]
                   /\ ret[w][k].AppliedAt = db0[w][known[k]].applied
                   /\ ret[w][k].Locked = db0[w][known[k]].locked
                   /\ ~ret[w][k].Failed
              /\ db = db0[w]

C23_Witness ==
    \E w \in Workers :
        /\ Returned(w, "Versions")
        /\ result[w] = "nil"
        /\ Rows(db0[w]) = {1, 3}
        /\ Len(ret[w]) = 3
        /\ ~ret[w][2].AppliedAt /\ ret[w][3].AppliedAt

\* C24: on one worker instance the creation of the bookkeeping table
\* succeeds at most once: it has succeeded exactly when initCalled is set,
\* and a call fails in the creation only while no earlier creation has
\* succeeded, leaving the next call to try again.
C24_CreateAtMostOnce ==
    [][\A w \in Workers :
         /\ created'[w] <= 1
         /\ created'[w] = 1 <=> initCalled'[w]
         /\ (schema'[w] = schema[w]) => created'[w] >= created[w]
         /\ (pc[w] = "idle" /\ result'[w] = "create table failed")
            => /\ created[w] = 0
               /\ created'[w] = 0
               /\ initCreates(w)'
      ]_vars

C24_Witness ==
    \E w \in Workers :
        /\ Returned(w, "Goto")
        /\ trail[w].stage = "unlocked"
        /\ created[w] = 1
        /\ result[w] = "nil"

\* The rows of the table whose version has no plan in the worker's schema.
Orphans(d, w) == Rows(d) \ schema[w]

\* C25: Up, Down and Goto (with a valid id) called while the table holds a
\* row whose version has no plan in the schema return the "missing plan"
\* error.
C25_OrphanRowReported ==
    \A w \in Workers :
        (pc[w] = "done" /\ op[w] \in {"Up", "Down", "Goto"}
         /\ result[w] \notin EnvErrors /\ result[w] # "invalid version id"
         /\ Orphans(db0[w], w) # {})
        => result[w] = "missing plan"

\* The steps the operation of worker w has still to take on table d:
\* unapplied versions for Up, applied versions for Down, down-steps plus
\* up-steps for Goto.
Pending(w, d) ==
    IF op[w] = "Up" THEN Cardinality(schema[w] \ Rows(d))
    ELSE IF op[w] = "Down" THEN Cardinality(schema[w] \cap Rows(d))
    ELSE Cardinality({i \in schema[w] \cap Rows(d) : i > arg[w]})
         + Cardinality({i \in schema[w] \ Rows(d) : i <= arg[w]})

\* C26: Up, Down and Goto take a bounded number of steps: whenever the loop
\* is about to start an iteration, every iteration so far has run one body
\* and reduced the number of pending steps by one, the loop goes round again
\* only while steps are pending, and a call runs at most as many single
\* steps as there are defined versions.
C26_StepsBounded ==
    \A w \in Workers :
        (InCall(w) /\ op[w] \in {"Up", "Down", "Goto"})
        => /\ Len(ran[w]) <= Cardinality(schema[w])
           /\ pc[w] = LoopPc(op[w])
              => /\ Pending(w, db) = Pending(w, db0[w]) - Len(ran[w])
                 /\ ran[w] # <<>> => Pending(w, db) > 0

C26_Witness ==
    \E w \in Workers :
        /\ op[w] = "Goto"
        /\ pc[w] = "gotoOne"
        /\ Len(ran[w]) = 2
        /\ Pending(w, db0[w]) = 3
        /\ Pending(w, db) = 1

\* ------------------------------------------------------------------ plans
\* The number of up executors and of down executors the definition has.
NUp ==
    (IF definition.upSQL # <<>> THEN 1 ELSE 0)
    + (IF definition.upDB THEN 1 ELSE 0)
    + (IF definition.upTx THEN 1 ELSE 0)

NDown ==
    (IF definition.downSQL # <<>> THEN 1 ELSE 0)
    + (IF definition.downDB THEN 1 ELSE 0)
    + (IF definition.downTx THEN 1 ELSE 0)

UpMissing == <<"call one of", "Up", "UpDB", "UpTx">>
DownMissing == <<"call one of", "Down", "DownDB", "DownTx">>

\* The errors of the plan about the number of executors.
CountErrors ==
    LET IsCount(e) == e = UpMissing \/ e[1] = "call only one of"
    IN SelectSeq(plan.errs, IsCount)

\* C27: the plan of a definition has no executor-count error exactly when
\* one up executor and at most one down executor are set; no up executor,
\* two or more up executors, and two or more down executors each add one
\* error to the plan.
C27_ExecutorCount ==
    plan.built
    => /\ (CountErrors = <<>>) <=> (NUp = 1 /\ NDown <= 1)
       /\ Len(CountErrors) = (IF NUp = 0 THEN 1 ELSE 0)
                             + (IF NUp >= 2 THEN 1 ELSE 0)
                             + (IF NDown >= 2 THEN 1 ELSE 0)
       /\ NUp = 0 <=> (\E k \in 1..Len(CountErrors) :
                          CountErrors[k] = UpMissing)
       /\ NUp >= 2 <=> (\E k \in 1..Len(CountErrors) :
                           /\ CountErrors[k][1] = "call only one of"
                           /\ CountErrors[k][2] \in {"Up", "UpDB"})
       /\ NDown >= 2 <=> (\E k \in 1..Len(CountErrors) :
                             /\ CountErrors[k][1] = "call only one of"
                             /\ CountErrors[k][2] \in {"Down", "DownDB"})

C27_Witness ==
    /\ plan.built
    /\ NUp = 3 /\ NDown = 2
    /\ Len(CountErrors) = 2

\* The object types that the claims call restorable.
RestorableTypes == {"view", "trigger", "procedure", "function"}

\* A statement with nothing standing for the name of its object.
NoObjectName(stmt) ==
    /\ get(stmt, 0) \in {"create", "alter", "drop"}
    /\ get(stmt, 1) \in DOMAIN allDBObjectTypes
    /\ Len(stmt) = 2 \/ (Len(stmt) = 3 /\ stmt[3] = ";")

Unrecognized(stmt) ==
    \/ get(stmt, 0) \notin {"create", "alter", "drop"}
    \/ get(stmt, 1) \notin DOMAIN allDBObjectTypes
    \/ NoObjectName(stmt)

\* C28: when a statement of the up SQL is not a recognized DDL statement
\* (unknown verb, unknown object type or no object name), the plan has no
\* action at all.
C28_UnrecognizedRejectsBatch ==
    LET stmts == newStatements(definition.upSQL)
    IN (plan.built /\ \E k \in 1..Len(stmts) : Unrecognized(stmts[k]))
       => plan.actions = <<>>

\* The actions of the plan that create or drop a restorable object, those
\* that create another object, and those on a restorable object type.
RestorableActions ==
    LET P(a) == a.verb \in {"create", "drop"}
                /\ a.objectType \in RestorableTypes
    IN SelectSeq(plan.actions, P)

OtherCreates ==
    LET P(a) == a.verb = "create" /\ a.objectType \notin RestorableTypes
    IN SelectSeq(plan.actions, P)

OnRestorableType ==
    LET P(a) == a.objectType \in RestorableTypes
    IN SelectSeq(plan.actions, P)

\* The version must be split: it has more than one restorable action, or
\* a restorable action beside the create of another object.
MustSplit ==
    \/ Len(RestorableActions) > 1
    \/ Len(RestorableActions) > 0 /\ Len(OtherCreates) > 0

OwnMigrationErrors ==
    LET P(e) == Last(e) = "in its own migration"
    IN SelectSeq(plan.errs, P)

\* The name of the object of an action as the errors write it.
NameOf(a) == IF a.schema = "" THEN <<a.name>> ELSE <<a.schema, ".", a.name>>

\* C29: when the actions of a version hold more than one restorable action,
\* or a restorable action beside the create of a non-restorable object, the
\* plan has one "in its own migration" error for each action on a
\* restorable object type, in their order, and no down SQL, whether or not
\* the definition has a down executor.
C29_OwnMigration ==
    (plan.built /\ MustSplit)
    => /\ OwnMigrationErrors
          = [k \in 1..Len(OnRestorableType) |->
                <<OnRestorableType[k].verb, OnRestorableType[k].objectType>>
                \o NameOf(OnRestorableType[k])
                \o <<"in its own migration">>]
       /\ plan.downSQL = <<>>

C29_Witness ==
    /\ plan.built /\ MustSplit
    /\ NDown = 1
    /\ Len(OtherCreates) = 1
    /\ Len(OwnMigrationErrors) = 1

\* The actions that cannot be reversed: every alter, and every drop of a
\* non-restorable object.
Irreversible ==
    LET P(a) == \/ a.verb = "alter"
                \/ a.verb = "drop" /\ a.objectType \notin RestorableTypes
    IN SelectSeq(plan.actions, P)

ManualErrors ==
    LET P(e) == Last(e) = "needs a manual down migration"
    IN SelectSeq(plan.errs, P)

\* What C30 promises of a plan with an action that cannot be reversed.
ManualDownRecorded ==
    /\ ManualErrors
       = [k \in 1..Len(Irreversible) |->
             <<Irreversible[k].verb, Irreversible[k].objectType>>
             \o NameOf(Irreversible[k])
             \o <<"needs a manual down migration">>]
    /\ plan.downSQL = <<>>
    /\ Last(plan.errs) = DownMissing

\* C30: without a down executor, and when the version need not be split,
\* the plan has one "needs a manual down migration" error for every alter
\* and for every drop of a non-restorable object, in their order, it has no
\* down SQL, and "call one of [Down DownDB DownTx]" is its last error.
C30_ManualDown ==
    (plan.built /\ NDown = 0 /\ Irreversible # <<>> /\ ~MustSplit)
    => ManualDownRecorded

C30_Witness ==
    /\ plan.built /\ NDown = 0 /\ ~MustSplit
    /\ Len(Irreversible) = 2
    /\ Len(ManualErrors) = 2
    /\ Last(plan.errs) = DownMissing

\* C30 as stated, whatever else the version holds.
C30_ManualDownAsStated ==
    (plan.built /\ NDown = 0 /\ Irreversible # <<>>)
    => ManualDownRecorded

\* The drop statement of the object of an action.
DropOf(a) == <<"drop", a.objectType>> \o NameOf(a) \o <<";">>

\* The creates of the object of action a among the actions of plan p.
CreatesOf(a, p) ==
    {i \in 1..Len(p.actions) :
        /\ p.actions[i].verb = "create"
        /\ p.actions[i].objectType = a.objectType
        /\ p.actions[i].schema = a.schema
        /\ p.actions[i].name = a.name}

\* The version has one action, the create or drop of a restorable object,
\* and no down executor.
RestoresOne ==
    /\ plan.built /\ NDown = 0
    /\ Len(plan.actions) = 1
    /\ plan.actions[1].verb \in {"create", "drop"}
    /\ plan.actions[1].objectType \in RestorableTypes

\* C31: the down SQL derived for a version whose one action creates or
\* drops a restorable object is, when an earlier version creates the same
\* object, the up SQL of the nearest such version, with a drop statement
\* before it unless that create was itself preceded by a drop; it is the
\* drop statement alone when no earlier version creates the object.
C31_RestoreDerived ==
    RestoresOne
    => LET a == plan.actions[1]
           hits == {k \in 1..Len(prev) : CreatesOf(a, prev[k]) # {}}
       IN IF hits = {} THEN plan.downSQL = DropOf(a)
          ELSE \E i \in CreatesOf(a, prev[Max(hits)]) :
                  plan.downSQL
                  = (IF prev[Max(hits)].actions[i].dropBefore
                     THEN <<>> ELSE DropOf(a))
                    \o prev[Max(hits)].upSQL

C31_Witness ==
    /\ RestoresOne
    /\ Len(prev) = 2
    /\ CreatesOf(plan.actions[1], prev[1]) # {}
    /\ CreatesOf(plan.actions[1], prev[2]) # {}
    /\ ~prev[1].actions[1].dropBefore
    /\ prev[2].actions[1].dropBefore
    /\ plan.downSQL = prev[2].upSQL

\* The version has actions, all of them creates of non-restorable objects,
\* and no down executor.
CreatesOnly ==
    /\ plan.built /\ NDown = 0
    /\ plan.actions # <<>>
    /\ Len(OtherCreates) = Len(plan.actions)

\* C32: the down SQL derived for a version whose actions are all creates
\* of non-restorable objects is one drop statement per action, the drop of
\* the last action first.
C32_DropsReversed ==
    CreatesOnly
    => LET n == Len(plan.actions)
       IN plan.downSQL
          = Flatten([k \in 1..n |-> DropOf(plan.actions[n + 1 - k])])

C32_Witness ==
    /\ CreatesOnly
    /\ Len(plan.actions) = 3
    /\ plan.actions[1].objectType = "domain"
    /\ plan.actions[3].objectType = "table"
    /\ SubSeq(plan.downSQL, 1, 2) = <<"drop", "table">>

\* The up SQL of the version is one statement, the create of an object of
\* type t, and the version has no down executor.
SingleCreate(t) ==
    /\ plan.built /\ NDown = 0
    /\ Len(newStatements(definition.upSQL)) = 1
    /\ Len(plan.actions) = 1
    /\ plan.actions[1].verb = "create"
    /\ plan.actions[1].objectType = t

\* C33: the plan of a version that is a single create index or a single
\* create trigger has a "needs a manual down migration" error, and still
\* has a drop statement as its down SQL.
C33_IndexTriggerManual ==
    (SingleCreate("index") \/ SingleCreate("trigger"))
    => /\ ManualErrors # <<>>
       /\ SubSeq(plan.downSQL, 1, 2) = <<"drop", plan.actions[1].objectType>>
       /\ Last(plan.downSQL) = ";"

\* The actions of the statements of the up SQL, one by one, before any
\* merge.
RawActions ==
    LET stmts == newStatements(definition.upSQL)
    IN [k \in 1..Len(stmts) |-> newDDLAction(stmts[k])]

\* The plan is built and every statement of the up SQL was recognized.
Recognized ==
    /\ plan.built
    /\ \A k \in 1..Len(RawActions) : RawActions[k] # NilAction

\* Action k is a drop and action k + 1 the create of the same object.
DropThenCreate(k) ==
    /\ k \in 1..(Len(RawActions) - 1)
    /\ RawActions[k].verb = "drop"
    /\ RawActions[k + 1].verb = "create"
    /\ RawActions[k].objectType = RawActions[k + 1].objectType
    /\ RawActions[k].schema = RawActions[k + 1].schema
    /\ RawActions[k].name = RawActions[k + 1].name
    /\ RawActions[k].index = RawActions[k + 1].index

\* The actions with every such drop taken out and its create marked.
DropsMerged ==
    LET P(k) == ~DropThenCreate(k)
        kept == SelectSeq([k \in 1..Len(RawActions) |-> k], P)
    IN [n \in 1..Len(kept) |->
          IF DropThenCreate(kept[n] - 1)
          THEN [RawActions[kept[n]] EXCEPT
                   !.dropBefore = TRUE,
                   !.checkExists = RawActions[kept[n] - 1].checkExists]
          ELSE RawActions[kept[n]]]

\* C34: the first merge puts, for a drop directly followed by the create of
\* the same object (type, schema, name, index name), the create alone,
\* marked as preceded by a drop and with the drop's "if exists" flag, and
\* keeps every other action, a drop and a create of one object that are
\* not adjacent included; the plan's actions are made from that list.
C34_DropCreateMerged ==
    Recognized
    => /\ mergeDropCreate(RawActions) = DropsMerged
       /\ plan.actions = mergeCreateTable(DropsMerged)

C34_Witness ==
    /\ Recognized
    /\ Len(RawActions) = 2
    /\ DropThenCreate(1)
    /\ RawActions[1].checkExists /\ ~RawActions[2].checkExists
    /\ Len(plan.actions) = 1
    /\ plan.actions[1].verb = "create"
    /\ plan.actions[1].dropBefore /\ plan.actions[1].checkExists

\* Action j of the list left by the first merge is an alter table or a
\* create index of a table that an earlier action of the list creates.
Absorbed(j) ==
    \E i \in 1..(j - 1) :
        /\ DropsMerged[i].verb = "create"
        /\ DropsMerged[i].objectType = "table"
        /\ DropsMerged[j].schema = DropsMerged[i].schema
        /\ DropsMerged[j].name = DropsMerged[i].name
        /\ <<DropsMerged[j].verb, DropsMerged[j].objectType>>
           \in {<<"alter", "table">>, <<"create", "index">>}

\* C35: the plan's actions are the actions left by the first merge without
\* every alter table and create index that comes, directly or further on,
\* after the create of its table; the other actions stay in their order.
C35_CreateTableAbsorbs ==
    Recognized
    => LET P(j) == ~Absorbed(j)
           kept == SelectSeq([j \in 1..Len(DropsMerged) |-> j], P)
       IN plan.actions = [n \in 1..Len(kept) |-> DropsMerged[kept[n]]]

C35_Witness ==
    /\ Recognized
    /\ Len(DropsMerged) = 3
    /\ Absorbed(3) /\ ~Absorbed(2)
    /\ DropsMerged[2].verb = "drop"
    /\ plan.actions = SubSeq(DropsMerged, 1, 2)

\* ------------------------------------------------------------ Goto steps
\* The applied versions above the target of worker w's call.
AppliedAbove(w, d) == {i \in Rows(d) : i > arg[w]}

C37_LockedBelowNoBlock ==
    \A w \in Workers :
        /\ ((Returned(w, "Goto") \/ Returned(w, "Force"))
            /\ result[w] = "version locked")
           => errId[w] \in LockedAbove(db0[w], arg[w])
        /\ (Returned(w, "Goto") /\ arg[w] \in schema[w]
            /\ ~HasFailed(db0[w]) /\ LockedAbove(db0[w], arg[w]) = {}
            /\ AllBodiesOk(w))
           => /\ result[w] = "nil"
              /\ LockedIds(db) = LockedIds(db0[w])

C37_Witness ==
    \E w \in Workers :
        /\ Returned(w, "Goto")
        /\ result[w] = "nil"
        /\ arg[w] = 2
        /\ Rows(db0[w]) = {1, 2, 3}
        /\ LockedIds(db0[w]) = {1, 2}
        /\ Rows(db) = {1, 2}
        /\ Len(ran[w]) = 1

\* C38: a call of Force inserts no version row and leaves the row of every
\* version below its target as it was, failed or locked or neither.
C38_ForceFrame ==
    \A w \in Workers :
        (InCall(w) /\ op[w] = "Force")
        => /\ Rows(db) \subseteq Rows(db0[w])
           /\ \A i \in Ids : i < arg[w] => db[i] = db0[w][i]

C38_Witness ==
    \E w \in Workers :
        /\ Returned(w, "Force")
        /\ result[w] = "nil"
        /\ arg[w] = 2
        /\ db0[w][1].applied /\ db0[w][1].failed
        /\ db # db0[w]

\* The rows that a step changes.
Changed == {i \in Ids : db'[i] # db[i]}

UpPcs == {"upOne", "upOneNoTx", "upClear"}
DownPcs == {"downOne", "downOneNoTx", "downDelete"}

\* C39: a transaction of a single step that writes to the table changes one
\* row only.  In an up step it is the row of the lowest unapplied version of
\* the schema, inserted, and at the end of the step applied, not failed and
\* not locked; in a down step it is the row of the highest applied version,
\* deleted.  No other row, flag included, changes.
C39_StepOneRow ==
    [][\A w \in Workers :
         (pc[w] \in UpPcs \cup DownPcs /\ db' # db)
         => /\ Cardinality(Changed) = 1
            /\ pc[w] \in UpPcs
               => /\ Changed = {Min(schema[w] \ (Rows(db) \ Changed))}
                  /\ \A i \in Changed :
                        /\ db'[i].applied /\ ~db'[i].locked
                        /\ pc[w] = "upClear" <=> db[i].applied
                        /\ pc'[w] \in {LoopPc(op[w]), "done"}
                           => db'[i] = Row(FALSE, FALSE)
            /\ pc[w] \in DownPcs
               => /\ Changed = {Max(Rows(db))}
                  /\ \A i \in Changed : db'[i] = NoRow
      ]_vars

C39_Witness ==
    \E w \in Workers :
        /\ Returned(w, "Up")
        /\ result[w] = "nil"
        /\ Rows(db0[w]) = {1, 3}
        /\ LockedIds(db0[w]) = {1}
        /\ {i \in Ids : db[i] # db0[w][i]} = {2}
        /\ Len(ran[w]) = 1 /\ ~ran[w][1].tx

\* ------------------------------------------------------------ two workers
\* Worker w has passed the first transaction of a non-transactional step
\* and its body is to run next.
BodyNext(w) == pc[w] \in {"upBody", "downBody"}

\* C40: two workers are never both about to run the non-transactional body
\* of the same version in the same direction: the worker that comes second
\* is stopped before its body.
C40_OneWorkerPerBody ==
    \A v, w \in Workers :
        (v # w /\ BodyNext(v) /\ BodyNext(w) /\ cur[v] = cur[w])
        => pc[v] # pc[w]

====
